---- MODULE Spec2Model ----
(***************************************************************************)
(* Model of src/components/retry-algorithm-comparison.tsx: the backoff     *)
(* engine calculateRetryDurations, the chart-data derivation (useMemo) and *)
(* the configuration list with its add / edit / update / delete handlers.  *)
(*                                                                         *)
(* Numbers are integers (milliseconds).  A RetryConfig is a record; the    *)
(* optional field maxDuration is either in the record's domain or not, as  *)
(* in the source.  Array indices are 0-based as in the source; sequences   *)
(* are 1-based, so the array element at index k is configs[k + 1].         *)
(***************************************************************************)
EXTENDS Integers, Sequences, FiniteSets, TLC

VARIABLES
    \* ---- engine harness: one call of calculateRetryDurations ----
    cfg,                \* the config argument
    maxRetries,         \* the maxRetries argument
    durations,          \* the returned array (<<>> before the call returns)
    pc,                 \* "call" before the call, "done" after it returned
    \* ---- formatter harness: one call of formatTime ----
    milliseconds,       \* the ms argument
    formatted,          \* the returned text (NoText before the call returns)
    \* ---- component state (useState hooks, lines 63-74) ----
    configs,            \* the configuration list
    newConfig,          \* the form buffer
    editingIndex,       \* Null or a 0-based index
    isEditDialogOpen,
    globalMaxRetries,
    isDescriptionOpen,
    chartData,          \* the memoised chart frame (useMemo, lines 131-144)
    \* ---- observers ----
    openedBy,           \* which control opened the dialog: "none" | "add" | "edit"
    editedRow,          \* where the configuration Edit was clicked on is now
    engineCalls,        \* engine invocations made by the latest chart recompute
    crashed             \* a render threw: the component tree is unmounted

engineVars == <<cfg, maxRetries, durations, pc, milliseconds, formatted>>
uiVars == <<configs, newConfig, editingIndex, isEditDialogOpen, globalMaxRetries,
            isDescriptionOpen, chartData, openedBy, editedRow, engineCalls,
            crashed>>
vars == <<cfg, maxRetries, durations, pc, milliseconds, formatted, configs, newConfig, editingIndex,
          isEditDialogOpen, globalMaxRetries, isDescriptionOpen, chartData,
          openedBy, editedRow, engineCalls, crashed>>

----------------------------------------------------------------------------
(* Bounds *)

MaxEngineRetries == 4   \* largest maxRetries the engine harness passes
MaxConfigs == 2         \* longest configuration list
MaxChartRetries == 3    \* largest globalMaxRetries the chart harness passes
MaxRemoveLen == 3       \* rows in the table before the first removal

----------------------------------------------------------------------------
(* Program constants *)

Null == -1

Types == {"linear", "exponential", "capped-exponential"}

DefaultConfig ==
    [type |-> "linear", initialDelay |-> 1000, factor |-> 1000,
     jitter |-> FALSE, jitterRange |-> 3]

InitialMaxRetries == 5
SliderMin == 1
SliderMax == 20

----------------------------------------------------------------------------
(* Arithmetic helpers *)

Max(a, b) == IF a >= b THEN a ELSE b
Min(a, b) == IF a <= b THEN a ELSE b

----------------------------------------------------------------------------
(* Backoff engine: calculateRetryDurations, lines 25-48 *)

\* config.maxDuration as a condition (line 34): present and neither 0 nor NaN
maxDurationTruthy(config) ==
    "maxDuration" \in DOMAIN config /\ config.maxDuration # 0

\* lines 30-37: the growth rule and the cap, applied to currentDelay.
\* currentDelay *= factor and the min with maxDuration are both inside the
\* exponential branch; the cap needs the type and a truthy maxDuration.
GrowLinearConstant(config, currentDelay) ==
    IF config.type = "linear"
    THEN currentDelay
    ELSE IF config.type = "capped-exponential" /\ maxDurationTruthy(config)
         THEN Min(currentDelay * config.factor, config.maxDuration)
         ELSE currentDelay * config.factor

GrowExponentialAsSum(config, currentDelay) ==
    IF config.type = "linear"
    THEN currentDelay + config.factor
    ELSE IF config.type = "capped-exponential" /\ maxDurationTruthy(config)
         THEN Min(currentDelay + config.factor, config.maxDuration)
         ELSE currentDelay + config.factor

Grow(config, currentDelay) ==
    IF config.type = "linear"
    THEN currentDelay + config.factor
    ELSE IF config.type \in {"exponential", "capped-exponential"}
         THEN IF config.type = "capped-exponential" /\ maxDurationTruthy(config)
              THEN Min(currentDelay * config.factor, config.maxDuration)
              ELSE currentDelay * config.factor
         ELSE currentDelay

\* Math.random() is in [0, 1); the values sampled are the quarters 0, 1/4,
\* 1/2 and 3/4, named by their numerators.
MathRandom == {0, 1, 2, 3}

\* line 40: (Math.random() * 2 - 1) * jitterRange, which for Math.random() =
\* r / 4 is (r - 2) * jitterRange / 2; the samples that give an integer are
\* kept.
JitterValues(jitterRange) ==
    { ((r - 2) * jitterRange) \div 2 :
        r \in { q \in MathRandom : ((q - 2) * jitterRange) % 2 = 0 } }

\* line 41: currentDelay = Math.max(0, currentDelay + jitter)
ApplyJitterUnclamped(currentDelay, jitter) == currentDelay + jitter

ApplyJitter(currentDelay, jitter) == Max(0, currentDelay + jitter)

\* variant: the jitter is applied whether or not config.jitter is set
RECURSIVE RetryLoopJitterAlways(_, _, _, _, _)
RetryLoopJitterAlways(config, retries, i, currentDelay, acc) ==
    IF i >= retries
    THEN {acc}
    ELSE LET grown == Grow(config, currentDelay)
             nexts == { ApplyJitter(grown, j) :
                           j \in JitterValues(config.jitterRange) }
         IN  UNION { RetryLoopJitterAlways(config, retries, i + 1, nd,
                                           Append(acc, acc[i] + nd)) :
                        nd \in nexts }

\* variant: the growth rule is applied to the cumulative total
RECURSIVE RetryLoopFromTotal(_, _, _, _, _)
RetryLoopFromTotal(config, retries, i, currentDelay, acc) ==
    IF i >= retries
    THEN {acc}
    ELSE LET grown == Grow(config, acc[i])
             nexts == IF config.jitter
                      THEN { ApplyJitter(grown, j) :
                                j \in JitterValues(config.jitterRange) }
                      ELSE {grown}
         IN  UNION { RetryLoopFromTotal(config, retries, i + 1, nd,
                                        Append(acc, acc[i] + nd)) :
                        nd \in nexts }

\* lines 29-45: the for loop from iteration i on, with Len(acc) = i.  The
\* result is the set of arrays the call can return, one per sequence of draws.
RECURSIVE RetryLoop(_, _, _, _, _)
RetryLoop(config, retries, i, currentDelay, acc) ==
    IF i >= retries
    THEN {acc}
    ELSE LET grown == Grow(config, currentDelay)
             nexts == IF config.jitter
                      THEN { ApplyJitter(grown, j) :
                                j \in JitterValues(config.jitterRange) }
                      ELSE {grown}
         IN  UNION { RetryLoop(config, retries, i + 1, nd, Append(acc, acc[i] + nd)) :
                        nd \in nexts }

\* lines 25-48
calculateRetryDurationsInclusive(config, retries) ==
    RetryLoop(config, retries + 1, 1, config.initialDelay, <<config.initialDelay>>)

calculateRetryDurations(config, retries) ==
    RetryLoop(config, retries, 1, config.initialDelay, <<config.initialDelay>>)

----------------------------------------------------------------------------
(* Engine harness: one call of calculateRetryDurations on drawn inputs *)

EngineDelays == {0, 1, 3, 1000}
EngineFactors == {-2, 0, 1, 2}
EngineMaxDurations == {0, 2, 5, 5000}
EngineJitterRanges == {0, 2, 3}

EngineConfigsNoMax ==
    [type : Types, initialDelay : EngineDelays, factor : EngineFactors,
     jitter : BOOLEAN, jitterRange : EngineJitterRanges]

\* the linear example of the documentation (factor 1000 only with linear growth)
EngineExamples ==
    { [type |-> "linear", initialDelay |-> 1000, factor |-> 1000,
       jitter |-> j, jitterRange |-> 3] : j \in BOOLEAN }

EngineConfigs ==
    EngineConfigsNoMax \cup EngineExamples \cup
    [type : Types, initialDelay : EngineDelays, factor : EngineFactors,
     maxDuration : EngineMaxDurations,
     jitter : BOOLEAN, jitterRange : EngineJitterRanges]

\* the call: the harness receives one of the arrays the engine can return
CallEngine ==
    /\ pc = "call"
    /\ durations' \in calculateRetryDurations(cfg, maxRetries)
    /\ pc' = "done"
    /\ UNCHANGED <<cfg, maxRetries, milliseconds, formatted>>
    /\ UNCHANGED uiVars

----------------------------------------------------------------------------
(* formatTime, lines 50-60 *)

\* A formatted time is the number toFixed(2) printed, kept as its count of
\* hundredths (150 is the text "1.50"), and the suffix appended to it.
NoText == [fixed |-> 0, unit |-> ""]

\* (num / den).toFixed(2): the nearest number with two decimals.  When the
\* quotient lies exactly halfway, the double that holds it is slightly above
\* or below the halfway point, so either neighbour can be printed.
ToFixed2(num, den) ==
    LET q == (num * 100) \div den
        r == (num * 100) % den
    IN  IF 2 * r < den THEN {q}
        ELSE IF 2 * r > den THEN {q + 1}
        ELSE {q, q + 1}

\* variant: the comparisons are <= instead of <
formatTimeInclusive(ms) ==
    IF ms <= 1000
    THEN { [fixed |-> h, unit |-> "ms"] : h \in ToFixed2(ms, 1) }
    ELSE IF ms <= 60000
    THEN { [fixed |-> h, unit |-> "s"] : h \in ToFixed2(ms, 1000) }
    ELSE IF ms <= 3600000
    THEN { [fixed |-> h, unit |-> "m"] : h \in ToFixed2(ms, 60000) }
    ELSE { [fixed |-> h, unit |-> "h"] : h \in ToFixed2(ms, 3600000) }

\* lines 50-60: the texts formatTime(ms) can return
formatTime(ms) ==
    IF ms < 1000
    THEN { [fixed |-> h, unit |-> "ms"] : h \in ToFixed2(ms, 1) }
    ELSE IF ms < 60000
    THEN { [fixed |-> h, unit |-> "s"] : h \in ToFixed2(ms, 1000) }
    ELSE IF ms < 3600000
    THEN { [fixed |-> h, unit |-> "m"] : h \in ToFixed2(ms, 60000) }
    ELSE { [fixed |-> h, unit |-> "h"] : h \in ToFixed2(ms, 3600000) }

\* the arguments of the formatter harness: the documented examples and every
\* value around the three thresholds
FormatInputs ==
    {0, 500, 1500, 90000, 7200000} \cup
    UNION { (t - 12)..(t + 12) : t \in {1000, 60000, 3600000} }

\* the call
CallFormat ==
    /\ pc = "format"
    /\ formatted' \in formatTime(milliseconds)
    /\ pc' = "formatted"
    /\ UNCHANGED <<cfg, maxRetries, durations, milliseconds>>
    /\ UNCHANGED uiVars

----------------------------------------------------------------------------
(* Configuration list: JavaScript array semantics *)

\* an array slot that was never assigned (a hole), and the value undefined
Hole == [hole |-> TRUE]
Undefined == [undefined |-> TRUE]

\* [...prev]: the spread reads every index, so a hole becomes undefined
Spread(list) ==
    [k \in 1..Len(list) |-> IF list[k] = Hole THEN Undefined ELSE list[k]]

\* updated[index] = value: an index at or past the length extends the array
\* and leaves holes in between
AssignAt(list, index, value) ==
    [k \in 1..Max(Len(list), index + 1) |->
        IF k = index + 1 THEN value
        ELSE IF k <= Len(list) THEN list[k] ELSE Hole]

\* variant: the predicate compares the 1-based position with the index
RECURSIVE FilterFromOneBased(_, _, _)
FilterFromOneBased(list, index, k) ==
    IF k > Len(list)
    THEN <<>>
    ELSE IF list[k] = Hole \/ k = index
         THEN FilterFromOneBased(list, index, k + 1)
         ELSE <<list[k]>> \o FilterFromOneBased(list, index, k + 1)

\* prev.filter((_, i) => i !== index), from position k on: filter skips holes
RECURSIVE FilterFrom(_, _, _)
FilterFrom(list, index, k) ==
    IF k > Len(list)
    THEN <<>>
    ELSE IF list[k] = Hole \/ k - 1 = index
         THEN FilterFrom(list, index, k + 1)
         ELSE <<list[k]>> \o FilterFrom(list, index, k + 1)

\* where the element at a 0-based row is after filter removed the index: the
\* number of elements kept before it, or Null if it is the one removed
RowAfterFilter(list, index, row) ==
    IF row = Null \/ row = index
    THEN Null
    ELSE Cardinality({ k \in 1..row : list[k] # Hole /\ k - 1 # index })

\* the positions configs.forEach / configs.map visit (holes are skipped),
\* as 1-based positions: position k is labelled "Config k"
Visited(list) == { k \in 1..Len(list) : list[k] # Hole }

HasUndefined(list) == \E k \in 1..Len(list) : list[k] = Undefined

----------------------------------------------------------------------------
(* Chart data: the useMemo body, lines 131-144 *)

\* line 138, for one invocation of the engine made for row i
CellValues(config, retries, i) ==
    IF i = 0
    THEN {0}
    ELSE { s[i] : s \in calculateRetryDurations(config, retries) }

\* lines 136-139: the forEach over the configs for row i; every (row, config)
\* pair makes its own engine call.  series[k] is the value stored under the
\* key "Config k".
RECURSIVE SeriesOver(_, _, _, _)
SeriesOver(list, retries, i, cols) ==
    IF cols = {}
    THEN {<<>>}
    ELSE LET k == CHOOSE c \in cols : \A c2 \in cols : c >= c2
         IN  { p @@ (k :> v) :
                 p \in SeriesOver(list, retries, i, cols \ {k}),
                 v \in CellValues(list[k], retries, i) }

\* lines 135-140: the points row i can be
Points(list, retries, i) ==
    { [retryCount |-> i, series |-> f] :
        f \in SeriesOver(list, retries, i, Visited(list)) }

\* lines 134-141: rows i .. retries, appended in order
RECURSIVE RowsFrom(_, _, _)
RowsFrom(list, retries, i) ==
    IF i > retries
    THEN {<<>>}
    ELSE { <<pt>> \o rest :
             pt \in Points(list, retries, i),
             rest \in RowsFrom(list, retries, i + 1) }

\* variant: the loop starts at retry count 1
FramesFromOne(list, retries) == RowsFrom(list, retries, 1)

\* lines 132-143: the frames one recompute can produce
Frames(list, retries) == RowsFrom(list, retries, 0)

\* A render after configs or globalMaxRetries changed (deps, line 144): the
\* memo is recomputed.  An undefined element makes calculateRetryDurations
\* read a property of undefined: the render throws and the tree unmounts.
Recompute(list, retries) ==
    IF HasUndefined(list)
    THEN /\ crashed' = TRUE
         /\ UNCHANGED <<chartData, engineCalls>>
    ELSE /\ chartData' \in Frames(list, retries)
         /\ engineCalls' = (retries + 1) * Cardinality(Visited(list))
         /\ UNCHANGED crashed

----------------------------------------------------------------------------
(* Component: initial state, lines 63-74, and the first render *)

UIInit ==
    /\ configs = <<>>
    /\ newConfig = DefaultConfig
    /\ editingIndex = Null
    /\ isEditDialogOpen = FALSE
    /\ globalMaxRetries = InitialMaxRetries
    /\ isDescriptionOpen = TRUE
    /\ chartData \in Frames(<<>>, InitialMaxRetries)
    /\ openedBy = "none"
    /\ editedRow = Null
    /\ engineCalls = 0
    /\ crashed = FALSE

FormatIdle ==
    /\ milliseconds = 0
    /\ formatted = NoText

EngineIdle ==
    /\ cfg = DefaultConfig
    /\ maxRetries = 1
    /\ durations = <<>>
    /\ pc = "idle"
    /\ FormatIdle

----------------------------------------------------------------------------
(* Component: event handlers *)

\* The dialog is modal: while it is open only its form and its dismissal are
\* reachable; the table, the slider and the side panel are behind it.
Page == ~crashed /\ ~isEditDialogOpen
Form == ~crashed /\ isEditDialogOpen

\* the positions the slider is moved to (min 1, max 20, step 1); the form is
\* submitted once the slider stands on one of them
SliderStops == {v \in {1, 2} : SliderMin <= v /\ v <= SliderMax}

\* the values typed or selected in the form; type="number" inputs arrive
\* through Number(value)
FormInputs ==
    { <<"type", "linear">>, <<"type", "exponential">>, <<"factor", 2>> }

\* lines 317-326 and 337-346: two inputs are rendered conditionally
InputRendered(name) ==
    CASE name = "maxDuration" -> newConfig.type = "capped-exponential"
      [] name = "jitterRange" -> newConfig.jitter
      [] OTHER -> TRUE

\* line 179
ToggleDescription ==
    /\ Page
    /\ isDescriptionOpen' = ~isDescriptionOpen
    /\ UNCHANGED <<configs, newConfig, editingIndex, isEditDialogOpen,
                   globalMaxRetries, chartData, openedBy, editedRow,
                   engineCalls, crashed>>
    /\ UNCHANGED engineVars

\* lines 256-264: the slider reports a value only when it changes
SliderChange(value) ==
    /\ Page
    /\ value # globalMaxRetries
    /\ globalMaxRetries' = value
    /\ Recompute(configs, value)
    /\ UNCHANGED <<configs, newConfig, editingIndex, isEditDialogOpen,
                   isDescriptionOpen, openedBy, editedRow>>
    /\ UNCHANGED engineVars

\* lines 267-270: the DialogTrigger calls onOpenChange(true)
OpenAddDialog ==
    /\ Page
    /\ isEditDialogOpen' = TRUE
    /\ openedBy' = "add"
    /\ UNCHANGED editedRow
    /\ UNCHANGED <<configs, newConfig, editingIndex, globalMaxRetries,
                   isDescriptionOpen, chartData, engineCalls, crashed>>
    /\ UNCHANGED engineVars

\* line 267: Escape, the overlay or the close button call onOpenChange(false)
DismissDialog ==
    /\ Form
    /\ isEditDialogOpen' = FALSE
    /\ openedBy' = "none"
    /\ UNCHANGED editedRow
    /\ UNCHANGED <<configs, newConfig, editingIndex, globalMaxRetries,
                   isDescriptionOpen, chartData, engineCalls, crashed>>
    /\ UNCHANGED engineVars

\* variant: the field is written into the object the buffer refers to, which
\* after an Edit click is the listed configuration itself (line 104)
handleInputChangeInPlace(name, value) ==
    /\ Form
    /\ InputRendered(name)
    /\ newConfig' = (name :> value) @@ newConfig
    /\ configs' = IF openedBy = "edit" /\ editingIndex + 1 \in Visited(configs)
                  THEN [configs EXCEPT ![editingIndex + 1] = (name :> value) @@ @]
                  ELSE configs
    /\ UNCHANGED <<editingIndex, isEditDialogOpen, globalMaxRetries,
                   isDescriptionOpen, chartData, openedBy, editedRow,
                   engineCalls, crashed>>
    /\ UNCHANGED engineVars

\* lines 77-84
handleInputChange(name, value) ==
    /\ Form
    /\ InputRendered(name)
    /\ newConfig' = (name :> value) @@ newConfig
    /\ UNCHANGED <<configs, editingIndex, isEditDialogOpen, globalMaxRetries,
                   isDescriptionOpen, chartData, openedBy, editedRow,
                   engineCalls, crashed>>
    /\ UNCHANGED engineVars

\* lines 86-88
handleJitterChange(checked) ==
    /\ Form
    /\ checked # newConfig.jitter
    /\ newConfig' = [newConfig EXCEPT !.jitter = checked]
    /\ UNCHANGED <<configs, editingIndex, isEditDialogOpen, globalMaxRetries,
                   isDescriptionOpen, chartData, openedBy, editedRow,
                   engineCalls, crashed>>
    /\ UNCHANGED engineVars

\* lines 90-100, reached from onSubmit (line 277) when editingIndex is null
handleAddConfig ==
    /\ Form
    /\ editingIndex = Null
    /\ Len(configs) < MaxConfigs
    /\ globalMaxRetries \in SliderStops
    /\ configs' = Append(Spread(configs), newConfig)
    /\ newConfig' = DefaultConfig
    /\ isEditDialogOpen' = FALSE
    /\ openedBy' = "none"
    /\ UNCHANGED editedRow
    /\ Recompute(configs', globalMaxRetries)
    /\ UNCHANGED <<editingIndex, globalMaxRetries, isDescriptionOpen>>
    /\ UNCHANGED engineVars

\* lines 102-106: the Edit button of a rendered table row
handleEditConfig(index) ==
    /\ Page
    /\ index + 1 \in Visited(configs)
    /\ editingIndex' = index
    /\ newConfig' = configs[index + 1]
    /\ isEditDialogOpen' = TRUE
    /\ openedBy' = "edit"
    /\ editedRow' = index
    /\ UNCHANGED <<configs, globalMaxRetries, isDescriptionOpen, chartData,
                   engineCalls, crashed>>
    /\ UNCHANGED engineVars

\* lines 108-125, reached from onSubmit (line 277) when editingIndex is not null
handleUpdateConfig ==
    /\ Form
    /\ editingIndex # Null
    /\ globalMaxRetries \in SliderStops
    /\ configs' = AssignAt(Spread(configs), editingIndex, newConfig)
    /\ editingIndex' = Null
    /\ isEditDialogOpen' = FALSE
    /\ openedBy' = "none"
    /\ editedRow' = Null
    /\ newConfig' = DefaultConfig
    /\ Recompute(configs', globalMaxRetries)
    /\ UNCHANGED <<globalMaxRetries, isDescriptionOpen>>
    /\ UNCHANGED engineVars

\* lines 127-129: the Delete button of a rendered table row
handleDeleteConfig(index) ==
    /\ Page
    /\ index + 1 \in Visited(configs)
    /\ configs' = FilterFrom(configs, index, 1)
    /\ editedRow' = RowAfterFilter(configs, index, editedRow)
    /\ Recompute(configs', globalMaxRetries)
    /\ UNCHANGED <<newConfig, editingIndex, isEditDialogOpen, globalMaxRetries,
                   isDescriptionOpen, openedBy>>
    /\ UNCHANGED engineVars

\* line 277: the form's onSubmit
SubmitForm == handleUpdateConfig \/ handleAddConfig

----------------------------------------------------------------------------
(* Specifications *)

\* the component, driven by user events
Init == UIInit /\ EngineIdle

Next ==
    \/ ToggleDescription
    \/ \E value \in SliderStops : SliderChange(value)
    \/ OpenAddDialog
    \/ DismissDialog
    \/ \E input \in FormInputs : handleInputChange(input[1], input[2])
    \/ \E checked \in BOOLEAN : handleJitterChange(checked)
    \/ handleAddConfig
    \/ \E index \in 0..(MaxConfigs - 1) : handleEditConfig(index)
    \/ handleUpdateConfig
    \/ \E index \in 0..(MaxConfigs - 1) : handleDeleteConfig(index)

Spec == Init /\ [][Next]_vars

\* the engine alone, called once on inputs drawn from the bounded sets
InitEngine ==
    /\ UIInit
    /\ cfg \in EngineConfigs
    /\ maxRetries \in 1..MaxEngineRetries
    /\ durations = <<>>
    /\ pc = "call"
    /\ FormatIdle

NextEngine == CallEngine

SpecEngine == InitEngine /\ [][NextEngine]_vars

\* the chart derivation alone, run once on a drawn list and budget
ChartConfigs ==
    { [type |-> "linear", initialDelay |-> 1000, factor |-> 1000,
       jitter |-> FALSE, jitterRange |-> 3],
      [type |-> "linear", initialDelay |-> 1, factor |-> 0,
       jitter |-> TRUE, jitterRange |-> 3],
      [type |-> "exponential", initialDelay |-> 1, factor |-> 2,
       jitter |-> FALSE, jitterRange |-> 3],
      [type |-> "capped-exponential", initialDelay |-> 1, factor |-> 2,
       maxDuration |-> 2, jitter |-> FALSE, jitterRange |-> 3] }

ChartLists == UNION { [1..n -> ChartConfigs] : n \in 0..MaxConfigs }

BuildChart ==
    /\ pc = "chart"
    /\ Recompute(configs, globalMaxRetries)
    /\ pc' = "charted"
    /\ UNCHANGED <<cfg, maxRetries, durations, milliseconds, formatted>>
    /\ UNCHANGED <<configs, newConfig, editingIndex, isEditDialogOpen,
                   globalMaxRetries, isDescriptionOpen, openedBy, editedRow>>

InitChart ==
    /\ configs \in ChartLists
    /\ globalMaxRetries \in SliderMin..Min(SliderMax, MaxChartRetries)
    /\ chartData = <<>>
    /\ newConfig = DefaultConfig
    /\ editingIndex = Null
    /\ isEditDialogOpen = FALSE
    /\ isDescriptionOpen = TRUE
    /\ openedBy = "none"
    /\ editedRow = Null
    /\ engineCalls = 0
    /\ crashed = FALSE
    /\ cfg = DefaultConfig
    /\ maxRetries = 1
    /\ durations = <<>>
    /\ pc = "chart"
    /\ FormatIdle

NextChart == BuildChart

SpecChart == InitChart /\ [][NextChart]_vars

\* the Delete buttons alone, clicked on a rendered table of MaxRemoveLen rows
InitRemove ==
    /\ configs \in [1..MaxRemoveLen -> ChartConfigs]
    /\ globalMaxRetries \in SliderStops
    /\ chartData \in Frames(configs, globalMaxRetries)
    /\ newConfig = DefaultConfig
    /\ editingIndex = Null
    /\ isEditDialogOpen = FALSE
    /\ isDescriptionOpen = TRUE
    /\ openedBy = "none"
    /\ editedRow = Null
    /\ engineCalls = (globalMaxRetries + 1) * MaxRemoveLen
    /\ crashed = FALSE
    /\ EngineIdle

NextRemove == \E index \in 0..(MaxRemoveLen - 1) : handleDeleteConfig(index)

SpecRemove == InitRemove /\ [][NextRemove]_vars

\* the formatter alone, called once on a drawn number of milliseconds
InitFormat ==
    /\ UIInit
    /\ cfg = DefaultConfig
    /\ maxRetries = 1
    /\ durations = <<>>
    /\ pc = "format"
    /\ milliseconds \in FormatInputs
    /\ formatted = NoText

NextFormat == CallFormat

SpecFormat == InitFormat /\ [][NextFormat]_vars

----------------------------------------------------------------------------
(* Vocabulary of the properties *)

Done == pc = "done"

\* the per-step delay at 0-based step i of a cumulative series
Delay(series, i) == IF i = 0 THEN series[1] ELSE series[i + 1] - series[i]

RECURSIVE Pow(_, _)
Pow(b, e) == IF e = 0 THEN 1 ELSE b * Pow(b, e - 1)

RECURSIVE LinearSum(_, _, _)
LinearSum(d, f, i) == IF i = 0 THEN d ELSE LinearSum(d, f, i - 1) + d + i * f

RECURSIVE ExponentialSum(_, _, _)
ExponentialSum(d, f, i) ==
    IF i = 0 THEN d ELSE ExponentialSum(d, f, i - 1) + d * Pow(f, i)

RECURSIVE CappedSum(_, _, _, _)
CappedSum(d, f, m, i) ==
    IF i = 0 THEN Min(d, m) ELSE CappedSum(d, f, m, i - 1) + Min(d * Pow(f, i), m)

\* the series the same configuration returns with jitter disabled
RawSeries(config, retries) ==
    CHOOSE s \in calculateRetryDurations([config EXCEPT !.jitter = FALSE], retries) : TRUE

----------------------------------------------------------------------------
(* Engine properties, checked under SpecEngine *)

\* C1: with jitter enabled, every per-step delay at a step i >= 1 lies within
\* jitterRange of the delay the jitter-free configuration has at step i, the
\* band being clamped below at 0.
C1_JitterWithinRawBand ==
    (Done /\ cfg.jitter) =>
        \A i \in 1..(maxRetries - 1) :
            LET raw == Delay(RawSeries(cfg, maxRetries), i)
                step == Delay(durations, i)
            IN  /\ step >= Max(0, raw - cfg.jitterRange)
                /\ step <= Max(0, raw + cfg.jitterRange)

\* C3: for initialDelay >= 0, any type, any factor, jitter on or off, the
\* returned series never decreases.
C3_SeriesNonDecreasing ==
    (Done /\ cfg.initialDelay >= 0) =>
        \A i \in 1..(maxRetries - 1) : durations[i + 1] >= durations[i]

\* C4: capped-exponential without jitter and with a provided non-negative
\* maxDuration M: every per-step delay is min(d * f^i, M), the delays never
\* decrease and stay at the cap once it is hit, and the series is their sum.
C4_CappedDelayIsMinOfPowerAndCap ==
    (/\ Done
     /\ cfg.type = "capped-exponential"
     /\ ~cfg.jitter
     /\ cfg.initialDelay >= 0
     /\ "maxDuration" \in DOMAIN cfg
     /\ cfg.maxDuration >= 0) =>
        /\ \A i \in 0..(maxRetries - 1) :
              /\ Delay(durations, i) =
                    Min(cfg.initialDelay * Pow(cfg.factor, i), cfg.maxDuration)
              /\ durations[i + 1] =
                    CappedSum(cfg.initialDelay, cfg.factor, cfg.maxDuration, i)
        /\ \A i \in 1..(maxRetries - 1) :
              /\ Delay(durations, i) >= Delay(durations, i - 1)
              /\ Delay(durations, i - 1) = cfg.maxDuration
                    => Delay(durations, i) = cfg.maxDuration

\* C5: capped-exponential with a maxDuration M present: every per-step delay
\* of the returned series is at most M, with jitter on or off.
C5_MaxDurationBoundsEveryDelay ==
    (/\ Done
     /\ cfg.type = "capped-exponential"
     /\ "maxDuration" \in DOMAIN cfg) =>
        \A i \in 0..(maxRetries - 1) : Delay(durations, i) <= cfg.maxDuration

\* C6: linear without jitter: the per-step delay at step i is d + i * f and
\* the series at index i is the sum of d + k * f for k = 0 .. i.
C6_LinearClosedForm ==
    (Done /\ cfg.type = "linear" /\ ~cfg.jitter) =>
        \A i \in 0..(maxRetries - 1) :
            /\ Delay(durations, i) = cfg.initialDelay + i * cfg.factor
            /\ durations[i + 1] = LinearSum(cfg.initialDelay, cfg.factor, i)

\* the documented linear example has been computed
C6_Witness ==
    /\ Done
    /\ cfg.type = "linear" /\ ~cfg.jitter
    /\ cfg.initialDelay = 1000 /\ cfg.factor = 1000 /\ maxRetries = 3
    /\ durations = <<1000, 3000, 6000>>

\* C7: exponential without jitter: the per-step delay at step i is d * f^i
\* and the series at index i is the sum of d * f^k for k = 0 .. i.
C7_ExponentialClosedForm ==
    (Done /\ cfg.type = "exponential" /\ ~cfg.jitter) =>
        \A i \in 0..(maxRetries - 1) :
            /\ Delay(durations, i) = cfg.initialDelay * Pow(cfg.factor, i)
            /\ durations[i + 1] = ExponentialSum(cfg.initialDelay, cfg.factor, i)

\* the documented exponential example has been computed
C7_Witness ==
    /\ Done
    /\ cfg.type = "exponential" /\ ~cfg.jitter
    /\ cfg.initialDelay = 1000 /\ cfg.factor = 2 /\ maxRetries = 4
    /\ durations = <<1000, 3000, 7000, 15000>>

\* C8: for every config and every maxRetries >= 1 the call returns exactly
\* maxRetries values and the first is initialDelay, untouched by growth, cap
\* or jitter.
C8_LengthAndFirstElement ==
    Done => /\ Len(durations) = maxRetries
            /\ durations[1] = cfg.initialDelay

\* a budget of 1 on a jittered, capped configuration whose cap is below its
\* initial delay, and a longer jittered call, have both returned
C8_Witness ==
    /\ Done
    /\ cfg.jitter /\ cfg.jitterRange > 0
    /\ cfg.type = "capped-exponential"
    /\ "maxDuration" \in DOMAIN cfg /\ cfg.maxDuration = 2
    /\ cfg.initialDelay = 3
    /\ maxRetries = 1
    /\ durations = <<3>>

\* C9: with jitter enabled every per-step delay is >= 0, whatever the type,
\* the factor and the draw; the clamp is on the per-step delay.
C9_JitteredDelayNonNegative ==
    (Done /\ cfg.jitter /\ cfg.initialDelay >= 0) =>
        \A i \in 0..(maxRetries - 1) : Delay(durations, i) >= 0

\* a negative draw on a delay that growth already made negative was clamped:
\* linear from 1 by -2 grows to -1, and the step delay returned is 0
C9_Witness ==
    /\ Done
    /\ cfg.jitter /\ cfg.jitterRange = 2
    /\ cfg.type = "linear" /\ cfg.initialDelay = 1 /\ cfg.factor = -2
    /\ maxRetries >= 2
    /\ Delay(durations, 1) = 0

----------------------------------------------------------------------------
(* Chart properties, checked under SpecChart *)

Charted == pc = "charted"

\* C2: one recompute invokes the engine once per configuration, and each
\* column is rows 1..N of that one returned series, hence non-decreasing.
C2_ColumnIsOneSeries ==
    Charted =>
        /\ engineCalls = Cardinality(Visited(configs))
        /\ \A k \in Visited(configs) :
              /\ \E s \in calculateRetryDurations(configs[k], globalMaxRetries) :
                    \A i \in 1..globalMaxRetries :
                        chartData[i + 1].series[k] = s[i]
              /\ \A i \in 2..globalMaxRetries :
                    chartData[i + 1].series[k] >= chartData[i].series[k]

----------------------------------------------------------------------------
(* Component properties, checked under Spec *)

\* C10: submitting the form after the dialog was opened with the Add New
\* Configuration button appends the form buffer to the list and leaves the
\* existing elements in place.
C10_AddSubmitAppends ==
    [][(openedBy = "add" /\ SubmitForm) => configs' = Append(configs, newConfig)]_vars

----------------------------------------------------------------------------
(* Update and removal, checked under Spec and SpecRemove *)

\* C11: a submit in edit mode replaces exactly the element at editingIndex,
\* an existing element, by the form buffer; the length of the list and every
\* other element are unchanged.
C11_UpdateReplacesInPlace ==
    [][handleUpdateConfig =>
          /\ editingIndex + 1 \in 1..Len(configs)
          /\ Len(configs') = Len(configs)
          /\ configs'[editingIndex + 1] = newConfig
          /\ \A k \in 1..Len(configs) :
                k # editingIndex + 1 => configs'[k] = configs[k]]_vars

\* the configurations of a list, in order (the rows the table renders)
Listed(list) == SelectSeq(list, LAMBDA e : e # Hole)

\* a list with the slot at a 0-based index taken out
Without(list, index) ==
    [j \in 1..(Len(list) - 1) |-> list[IF j <= index THEN j ELSE j + 1]]

\* C12: removing the configuration at index k of n leaves the n-1 others in
\* their original order, and the chart has exactly the columns "Config 1" ..
\* "Config n-1", column j holding values of the j-th remaining configuration.
C12_RemoveKeepsOrderAndRenumbers ==
    [][\A index \in 0..(MaxRemoveLen - 1) :
          handleDeleteConfig(index) =>
             LET remaining == Listed(Without(configs, index))
             IN  /\ Len(remaining) = Len(Listed(configs)) - 1
                 /\ configs' = remaining
                 /\ \A r \in 1..Len(chartData') :
                       /\ DOMAIN chartData'[r].series = 1..Len(remaining)
                       /\ \A j \in 1..Len(remaining) :
                             chartData'[r].series[j] \in
                                CellValues(remaining[j], globalMaxRetries,
                                           chartData'[r].retryCount)]_vars

\* one of three rows was removed: two columns are left, labelled 1 and 2, and
\* column 2 shows a configuration different from column 1
C12_Witness ==
    /\ Len(configs) = MaxRemoveLen - 1
    /\ Len(chartData) = globalMaxRetries + 1
    /\ \A r \in 1..Len(chartData) :
          DOMAIN chartData[r].series = 1..(MaxRemoveLen - 1)
    /\ configs[1] # configs[MaxRemoveLen - 1]
    /\ chartData[2].series[1] # chartData[2].series[MaxRemoveLen - 1]

----------------------------------------------------------------------------
(* Frame shape, checked under SpecChart *)

\* C13: the frame has the rows retryCount = 0 .. N in order; every row has one
\* column per configuration; row 0 holds 0 everywhere; a jitter-free
\* configuration shows at row i >= 1 element i-1 of its engine result.
C13_FrameShape ==
    Charted =>
       /\ Len(chartData) = globalMaxRetries + 1
       /\ \A i \in 0..globalMaxRetries :
             /\ chartData[i + 1].retryCount = i
             /\ DOMAIN chartData[i + 1].series = 1..Len(configs)
             /\ \A k \in 1..Len(configs) :
                   /\ i = 0 => chartData[i + 1].series[k] = 0
                   /\ (i >= 1 /\ ~configs[k].jitter) =>
                         \A s \in calculateRetryDurations(configs[k],
                                                          globalMaxRetries) :
                            chartData[i + 1].series[k] = s[(i - 1) + 1]

\* a two-column frame of three or more rows whose first column is the linear
\* 1000/1000 example: 0, 1000, 3000
C13_Witness ==
    /\ Charted
    /\ Len(configs) = 2
    /\ globalMaxRetries >= 2
    /\ configs[1] = DefaultConfig
    /\ configs[2].jitter
    /\ chartData[1].series[1] = 0
    /\ chartData[2].series[1] = 1000
    /\ chartData[3].series[1] = 3000

----------------------------------------------------------------------------
(* formatTime, checked under SpecFormat *)

\* the unit the thresholds select, and the divisor that goes with it
UnitOf(ms) ==
    CASE ms < 1000 -> "ms"
      [] 1000 <= ms /\ ms < 60000 -> "s"
      [] 60000 <= ms /\ ms < 3600000 -> "m"
      [] OTHER -> "h"

DivisorOf(unit) ==
    CASE unit = "ms" -> 1
      [] unit = "s" -> 1000
      [] unit = "m" -> 60000
      [] unit = "h" -> 3600000

\* C14: for a non-negative input formatTime prints, to two decimals, the input
\* in ms below 1000, divided by 1000 with suffix s from 1000 up to below
\* 60000, divided by 60000 with suffix m up to below 3600000, and divided by
\* 3600000 with suffix h from there on; 500 -> 500.00ms, 1500 -> 1.50s,
\* 90000 -> 1.50m, 7200000 -> 2.00h.
C14_UnitByThreshold ==
    pc = "formatted" =>
       LET d == DivisorOf(UnitOf(milliseconds))
           e == formatted.fixed * d - milliseconds * 100
       IN  /\ formatted.unit = UnitOf(milliseconds)
           /\ 2 * e <= d /\ 2 * e >= -d
           /\ milliseconds = 500 => formatted = [fixed |-> 50000, unit |-> "ms"]
           /\ milliseconds = 1500 => formatted = [fixed |-> 150, unit |-> "s"]
           /\ milliseconds = 90000 => formatted = [fixed |-> 150, unit |-> "m"]
           /\ milliseconds = 7200000 => formatted = [fixed |-> 200, unit |-> "h"]

\* one minute exactly is printed in minutes: "1.00m"
C14_Witness ==
    /\ pc = "formatted"
    /\ milliseconds = 60000
    /\ formatted = [fixed |-> 100, unit |-> "m"]

----------------------------------------------------------------------------
(* Determinism and growth base, checked under SpecEngine *)

\* C15: with jitter off the engine is deterministic: a call with the same
\* config and maxRetries can return only one array, the same array whatever
\* jitterRange is, and a chart over that configuration has only one frame.
C15_JitterFreeDeterministic ==
    (Done /\ ~cfg.jitter) =>
       /\ calculateRetryDurations(cfg, maxRetries) = {durations}
       /\ \A range \in EngineJitterRanges :
             calculateRetryDurations([cfg EXCEPT !.jitterRange = range],
                                     maxRetries) = {durations}
       /\ Cardinality(Frames(<<cfg>>, maxRetries)) = 1

\* a jitter-free call of three steps with a non-zero jitterRange
C15_Witness ==
    /\ Done
    /\ cfg = DefaultConfig
    /\ cfg.jitterRange = 3
    /\ maxRetries = 3
    /\ durations = <<1000, 3000, 6000>>

\* C16: the growth rule of step i >= 1 takes the per-step delay of step i-1
\* (as the cap and the jitter clamp left it), never the cumulative total: the
\* delay of step i is that delay plus factor (linear) or times factor
\* (exponential; capped-exponential, then the min with a set maxDuration),
\* then the jitter and its clamp, and the total grows by exactly that delay.
C16_GrowthFromPreviousDelay ==
    Done =>
       \A i \in 1..(maxRetries - 1) :
          LET previous == Delay(durations, i - 1)
              raw == IF cfg.type = "linear"
                     THEN previous + cfg.factor
                     ELSE previous * cfg.factor
              capped == IF /\ cfg.type = "capped-exponential"
                           /\ "maxDuration" \in DOMAIN cfg
                           /\ cfg.maxDuration # 0
                        THEN Min(raw, cfg.maxDuration)
                        ELSE raw
          IN  /\ durations[i + 1] = durations[i] + Delay(durations, i)
              /\ IF cfg.jitter
                 THEN \E j \in JitterValues(cfg.jitterRange) :
                         Delay(durations, i) = Max(0, capped + j)
                 ELSE Delay(durations, i) = capped

\* three steps of doubling from 3: the delays are 3, 6, 12 and the totals
\* 3, 9, 21 (doubling the total instead would give 3, 9, 27)
C16_Witness ==
    /\ Done
    /\ cfg.type = "exponential"
    /\ cfg.initialDelay = 3
    /\ cfg.factor = 2
    /\ ~cfg.jitter
    /\ maxRetries = 3
    /\ durations = <<3, 9, 21>>

----------------------------------------------------------------------------
(* Editing, the edit index and the memo, checked under Spec *)

\* C17: form field changes and dialog dismissals leave the configuration list
\* unchanged, the element being edited included; the list changes only in an
\* add, an update or a delete, and an update stores the whole form buffer.
C17_EditingDoesNotMutateList ==
    [][/\ ( \/ \E input \in FormInputs : handleInputChange(input[1], input[2])
            \/ \E checked \in BOOLEAN : handleJitterChange(checked)
            \/ DismissDialog ) => configs' = configs
       /\ configs' # configs =>
             \/ handleAddConfig
             \/ handleUpdateConfig
             \/ \E index \in 0..(MaxConfigs - 1) : handleDeleteConfig(index)
       /\ handleUpdateConfig => configs'[editingIndex + 1] = newConfig]_vars

\* the dialog was opened by Edit, two fields were changed since, and the
\* listed configuration still has its old value
C17_Witness ==
    /\ openedBy = "edit"
    /\ isEditDialogOpen
    /\ editingIndex + 1 \in 1..Len(configs)
    /\ configs[editingIndex + 1] = DefaultConfig
    /\ newConfig.type = "exponential"
    /\ newConfig.jitter

\* C18: editingIndex is null, or it is a valid index of the configuration
\* list and the configuration on which Edit was clicked is still the one at
\* that index.
C18_EditingIndexDenotesEditedRow ==
    \/ editingIndex = Null
    \/ /\ 0 <= editingIndex
       /\ editingIndex < Len(configs)
       /\ editedRow = editingIndex

\* the events that set the configuration list or the budget
ListOrBudgetEvent ==
    \/ handleAddConfig
    \/ handleUpdateConfig
    \/ \E index \in 0..(MaxConfigs - 1) : handleDeleteConfig(index)
    \/ \E value \in SliderStops : SliderChange(value)

\* the events that set only the form buffer, editingIndex, the dialog flag or
\* the description flag
FormOnlyEvent ==
    \/ ToggleDescription
    \/ OpenAddDialog
    \/ DismissDialog
    \/ \E input \in FormInputs : handleInputChange(input[1], input[2])
    \/ \E checked \in BOOLEAN : handleJitterChange(checked)
    \/ \E index \in 0..(MaxConfigs - 1) : handleEditConfig(index)

\* C19: an event that changes only the form buffer, editingIndex, the dialog
\* flag or the description flag leaves the chart data as it is; every add,
\* update, delete and budget change yields a frame computed from the new
\* list and the new budget.
C19_RecomputeExactlyOnListOrBudget ==
    [][/\ FormOnlyEvent => chartData' = chartData
       /\ ListOrBudgetEvent =>
             /\ ~HasUndefined(configs')
             /\ chartData' \in Frames(configs', globalMaxRetries')]_vars

====
